---- MODULE Spec2Model ----
(***************************************************************************)
(* Genesis bootstrap of go-expanse: core/genesis.go, WriteGenesisBlock.    *)
(* The chain database holds four independently keyed Chain Index records   *)
(* (block by hash, total difficulty by hash, canonical hash by number,     *)
(* head block hash) and the flushed world state.  One bootstrap call is    *)
(* stepped write by write so that a process crash or a failed store write  *)
(* can fall between any two of them.                                       *)
(***************************************************************************)
EXTENDS Integers, Sequences, FiniteSets, TLC

\* ------------------------------------------------------------------ bounds
\* the difficulties a genesis description may carry: 1..MaxDifficulty
MaxDifficulty == 2

\* --------------------------------------------------------------- optionals
None == <<>>
Some(x) == <<x>>

\* common.Hash{}: the zero hash
ZeroHash == <<>>

\* common.Address{}: the zero address
ZeroAddress == "00"

\* the error value of a call that did not fail
NoError == "nil"

\* ------------------------------------------------------- texts and numbers
\* A text is a sequence of one-character strings.
HexChars == <<"0", "1", "2", "3", "4", "5", "6", "7", "8", "9",
              "a", "b", "c", "d", "e", "f">>

IsDigit(c, base) == \E i \in 1..base : HexChars[i] = c

DigitOf(c) == (CHOOSE i \in 1..16 : HexChars[i] = c) - 1

\* the digits of s read in the base, -1 when one of them is no digit
RECURSIVE ParseDigits(_, _, _)
ParseDigits(s, base, acc) ==
  IF s = <<>> THEN acc
  ELSE IF ~IsDigit(Head(s), base) THEN -1
  ELSE ParseDigits(Tail(s), base, acc * base + DigitOf(Head(s)))

\* big.Int.SetString(s, 0): "0x" announces base 16, a leading "0" base 8,
\* anything else is base 10; -1 when the text is no number
SetString(s) ==
  IF Len(s) >= 2 /\ s[1] = "0" /\ s[2] = "x"
    THEN IF Len(s) = 2 THEN -1 ELSE ParseDigits(SubSeq(s, 3, Len(s)), 16, 0)
  ELSE IF Len(s) >= 2 /\ s[1] = "0" THEN ParseDigits(Tail(s), 8, 0)
  ELSE IF s = <<>> THEN -1
  ELSE ParseDigits(s, 10, 0)

\* common.String2Big: the result of SetString is not inspected, a text that
\* is no number leaves the fresh big.Int at zero
String2Big(s) == IF SetString(s) < 0 THEN 0 ELSE SetString(s)

\* fmt "%x" of big.Int.Bytes(): two digits for each byte, none for zero
RECURSIVE HexOfBytes(_)
HexOfBytes(n) ==
  IF n = 0 THEN <<>>
  ELSE HexOfBytes(n \div 256)
         \o <<HexChars[((n % 256) \div 16) + 1], HexChars[(n % 16) + 1]>>

\* the decimal text of a number
RECURSIVE DecText(_)
DecText(n) ==
  IF n < 10 THEN <<HexChars[n + 1]>>
  ELSE DecText(n \div 10) \o <<HexChars[(n % 10) + 1]>>

\* types.BlockNonce is [8]byte
NonceBytes == 8

RECURSIVE PadLeft(_, _)
PadLeft(s, n) == IF Len(s) >= n THEN s ELSE PadLeft(<<"0">> \o s, n)

\* fmt "%x" of types.EncodeNonce(n): the eight bytes, big endian
NonceHex(n) == PadLeft(HexOfBytes(n), 2 * NonceBytes)

Hex0x(digits) == <<"0", "x">> \o digits

\* common.FromHex: the bytes a hex text denotes, written as its digits
FromHex(s) ==
  IF Len(s) >= 2 /\ s[1] = "0" /\ s[2] = "x" THEN SubSeq(s, 3, Len(s)) ELSE s

\* common.Hex2Bytes: the bytes a text of hex digits denotes, written as its
\* digits; a text that is none gives no bytes
Hex2Bytes(s) == IF ParseDigits(s, 16, 0) < 0 THEN <<>> ELSE s

\* common.HexToHash: the hash whose bytes are the number the text denotes
HexToHash(s) ==
  IF ParseDigits(FromHex(s), 16, 0) <= 0 THEN ZeroHash
  ELSE <<"x", ParseDigits(FromHex(s), 16, 0)>>

\* An address text is kept as its form and the address its digits spell:
\* "plain" (forty digits), "0x" (the same behind a 0x prefix), "bad" (no hex
\* text) or "empty".  common.HexToAddress does not report what it cannot
\* decode: such a text gives the zero address.
HexToAddress(k) == IF k.form \in {"plain", "0x"} THEN k.addr ELSE ZeroAddress

NoAddressText == [form |-> "empty", addr |-> ZeroAddress]

\* ------------------------------------------------------------- world state
Put(f, k, v) == [x \in (DOMAIN f) \cup {k} |-> IF x = k THEN v ELSE f[x]]

Empty == [x \in {} |-> 0]

\* state.New(common.Hash{}, db): no account
EmptyState == Empty

NewAccount == [balance |-> 0, code |-> <<>>, storage |-> Empty]

GetOrNewStateObject(st, a) == IF a \in DOMAIN st THEN st[a] ELSE NewAccount

AddBalance(st, a, amount) ==
  Put(st, a, [GetOrNewStateObject(st, a) EXCEPT !.balance = @ + amount])

SetCode(st, a, code) ==
  Put(st, a, [GetOrNewStateObject(st, a) EXCEPT !.code = code])

SetState(st, a, key, value) ==
  Put(st, a, [GetOrNewStateObject(st, a) EXCEPT !.storage = Put(@, key, value)])

\* statedb.Root(): a commitment to the accounts; a storage slot holding the
\* zero hash is no slot
EmptyRoot == <<"emptyroot">>

Slots(storage) == {k \in DOMAIN storage : storage[k] # ZeroHash}

Committed(st) ==
  [a \in DOMAIN st |->
     [st[a] EXCEPT !.storage = [k \in Slots(st[a].storage) |-> st[a].storage[k]]]]

StateRoot(st) == IF DOMAIN st = {} THEN EmptyRoot ELSE <<"root", Committed(st)>>

\* ------------------------------------------------- genesis descriptions
\* A genesis description as handed to the reader: it is unreadable, not
\* valid JSON, or a JSON object whose fields are decoded by the builder.
Forms == {"ok", "unreadable", "badjson"}

\* the nonces a genesis description may carry ("0x42" in the main network's)
Nonces == {<<"0", "x", "4", "2">>}

\* two addresses
AddrA == "01"
AddrB == "02"

\* the allocation tables a genesis description may carry: the empty one, and
\* one account of balance 1
EmptyAlloc == <<>>

OneAlloc ==
  [k \in {[form |-> "plain", addr |-> AddrA]} |->
     [balance |-> <<"1">>, code |-> <<>>, storage |-> [x \in {} |-> 0]]]

Allocs == {EmptyAlloc, OneAlloc}

\* a JSON object with the given fields; the fields it leaves out are empty
Description(nonce, gasLimit, difficulty, parentHash, alloc) ==
  [form |-> "ok", nonce |-> nonce, timestamp |-> <<>>,
   parentHash |-> parentHash, extraData |-> <<>>, gasLimit |-> gasLimit,
   difficulty |-> difficulty, mixhash |-> <<>>, coinbase |-> NoAddressText,
   alloc |-> alloc]

Descriptions ==
  { d \in { [Description(n, <<>>, DecText(df), ZeroHash, al) EXCEPT !.form = f] :
              n \in Nonces, df \in 1..MaxDifficulty, al \in Allocs, f \in Forms } :
      /\ d.form # "ok" => d.difficulty = DecText(1)
      /\ d.alloc = IF d.difficulty = DecText(1) THEN EmptyAlloc ELSE OneAlloc }

\* variant: the error of json.Unmarshal is not returned
ParseError_UnmarshalIgnored(d) ==
  IF d.form = "unreadable" THEN "read error" ELSE NoError

\* ioutil.ReadAll / json.Unmarshal: the error of the early returns
ParseError(d) ==
  CASE d.form = "unreadable" -> "read error"
    [] d.form = "badjson" -> "unmarshal error"
    [] OTHER -> NoError

\* lines 65-70: one entry of the allocation table applied to the state
\* (the storage maps of the model hold one slot at most)
RECURSIVE ApplyStorage(_, _, _)
ApplyStorage(st, a, storage) ==
  IF DOMAIN storage = {} THEN st
  ELSE LET key == CHOOSE x \in DOMAIN storage : TRUE
       IN ApplyStorage(SetState(st, a, HexToHash(key), HexToHash(storage[key])),
                       a, [x \in DOMAIN storage \ {key} |-> storage[x]])

ApplyEntry(st, k, e) ==
  ApplyStorage(
    SetCode(AddBalance(st, HexToAddress(k), String2Big(e.balance)),
            HexToAddress(k), Hex2Bytes(e.code)),
    HexToAddress(k), e.storage)

\* lines 63-72 with the entries visited in one fixed order
RECURSIVE Materialize(_, _)
Materialize(st, alloc) ==
  IF DOMAIN alloc = {} THEN st
  ELSE LET k == CHOOSE x \in DOMAIN alloc : TRUE
       IN Materialize(ApplyEntry(st, k, alloc[k]),
                      [x \in DOMAIN alloc \ {k} |-> alloc[x]])

\* statedb.Root() of the state built from the description's allocation table
Root(d) == StateRoot(Materialize(EmptyState, d.alloc))

\* variant: the parent hash is decoded from the mix hash field
BuildHeader_ParentFromMixhash(d, root) ==
  [ParentHash |-> HexToHash(d.mixhash),
   Nonce |-> String2Big(d.nonce),
   Time |-> String2Big(d.timestamp),
   Extra |-> FromHex(d.extraData),
   GasLimit |-> String2Big(d.gasLimit),
   Difficulty |-> String2Big(d.difficulty),
   MixDigest |-> HexToHash(d.mixhash),
   Coinbase |-> HexToAddress(d.coinbase),
   Root |-> root,
   Number |-> 0]

\* lines 74-85: types.NewBlock(&types.Header{...}) over a state root
BuildHeader(d, root) ==
  [ParentHash |-> HexToHash(d.parentHash),
   Nonce |-> String2Big(d.nonce),
   Time |-> String2Big(d.timestamp),
   Extra |-> FromHex(d.extraData),
   GasLimit |-> String2Big(d.gasLimit),
   Difficulty |-> String2Big(d.difficulty),
   MixDigest |-> HexToHash(d.mixhash),
   Coinbase |-> HexToAddress(d.coinbase),
   Root |-> root,
   Number |-> 0]

\* the block of a description whose state root does not depend on the order
\* in which the allocation entries are visited
NewBlock(d) == BuildHeader(d, Root(d))

\* block.Hash(): a collision-free digest of the header
Hash(b) ==
  <<"h", b.ParentHash, b.Nonce, b.Time, b.Extra, b.GasLimit, b.Difficulty,
    b.MixDigest, b.Coinbase, b.Root, b.Number>>

\* ------------------------------------------------------------ chain database
EmptyDb == [blocks |-> Empty, td |-> Empty, canon |-> Empty, head |-> None,
            state |-> {}]

VARIABLES
  chainDb,    \* the database: Chain Index records and flushed state roots
  pc,         \* position of the bootstrap call: "idle", "alloc", "lookup",
              \* "run", "done"
  genesis,    \* the description of the call in progress
  statedb,    \* the world state the call builds in memory
  todo,       \* the allocation keys the loop of line 64 has yet to visit
  block,      \* the block built by the call (None before it is built)
  found,      \* result of GetBlock at line 87 (None: nil)
  readFailed, \* the by-hash read of the call failed
  steps,      \* the remaining steps of the call
  writes,     \* Chain Index writes the call has performed successfully
  failure,    \* the error a store write of the call raised, and which write
  ret,        \* the call's return value
  start,      \* the database when the call started
  prev,       \* summary of the previous call
  node,       \* the node behind the RPC facade: miner and transaction pool
  procs       \* two invocations that run at the same time, each its position

vars == <<chainDb, pc, genesis, statedb, todo, block, found, readFailed, steps,
          writes, failure, ret, start, prev, node, procs>>

NoPrev == [desc |-> CHOOSE d \in Descriptions : d.form = "unreadable",
           outcome |-> "none", writes |-> <<>>, fromEmpty |-> FALSE,
           block |-> None, allOk |-> TRUE]

NoFailure == [op |-> "none", err |-> NoError]

\* the invocations that run at the same time
Procs == {"p1", "p2"}

\* an invocation that has not begun
IdleProc ==
  [pc |-> "idle", block |-> None, found |-> None, readFailed |-> FALSE,
   steps |-> <<>>, ret |-> [block |-> None, err |-> NoError],
   failure |-> NoFailure]

\* the node before any request: not mining, nothing pending, no remote
\* hashrate reported
InitNode == [mining |-> FALSE, txPool |-> {}, hashrate |-> "none"]

Init ==
  /\ chainDb = EmptyDb
  /\ pc = "idle"
  /\ genesis = NoPrev.desc
  /\ statedb = EmptyState
  /\ todo = {}
  /\ block = None
  /\ found = None
  /\ readFailed = FALSE
  /\ steps = <<>>
  /\ writes = <<>>
  /\ failure = NoFailure
  /\ ret = [block |-> None, err |-> NoError]
  /\ start = EmptyDb
  /\ prev = NoPrev
  /\ node = InitNode
  /\ procs = [p \in Procs |-> IdleProc]

\* ---------------------------------------------------- Chain Index operations
\* GetBlock: the stored block, or nil when the key is absent or the read fails
GetBlock(db, hash, readOK) ==
  IF readOK /\ hash \in DOMAIN db.blocks THEN Some(db.blocks[hash]) ELSE None

WriteTd(db, hash, td) == [db EXCEPT !.td = Put(@, hash, td)]

WriteBlock(db, b) == [db EXCEPT !.blocks = Put(@, Hash(b), b)]

WriteCanonicalHash(db, hash, number) == [db EXCEPT !.canon = Put(@, number, hash)]

WriteHeadBlockHash(db, hash) == [db EXCEPT !.head = Some(hash)]

\* statedb.Sync(): flush the state trie of the built block to the database
StateSync(db, root) == [db EXCEPT !.state = @ \cup {root}]

\* the error a failing store write raises
StoreErrors == {"EIO"}

\* ------------------------------------------------- WriteGenesisBlock, 87-109
\* variants of the fresh-install sequence with two steps out of order
FreshSteps_CanonBeforeTd == <<"sync", "canon", "td", "block", "head">>

FreshSteps_HeadFirst == <<"sync", "head", "td", "block", "canon">>

FreshSteps_BlockBeforeTd == <<"sync", "block", "td", "canon", "head">>

FreshSteps_NoHead == <<"sync", "td", "block", "canon">>

FreshSteps_NoCanon == <<"sync", "td", "block", "head">>

FreshSteps_SyncLate == <<"td", "block", "sync", "canon", "head">>

\* the fresh-install sequence, lines 95-108
FreshSteps == <<"sync", "td", "block", "canon", "head">>

\* variant: the already-installed branch also re-points the head
InstalledSteps_WithHead == <<"canon", "head">>

\* the already-installed sequence, line 89
InstalledSteps == <<"canon">>

\* line 87: the branch taken on the result of GetBlock
StepsFor(stored) == IF stored # None THEN InstalledSteps ELSE FreshSteps

\* variant: the difficulty is added to the total difficulty already recorded
TdValue_Accumulated(db, b) ==
  IF Hash(b) \in DOMAIN db.td THEN db.td[Hash(b)] + b.Difficulty
                               ELSE b.Difficulty

\* line 74 and 97: the total difficulty written is the genesis difficulty
TdValue(db, b) == b.Difficulty

\* variant: the parent hash of the stored block is written as canonical
InstalledCanonicalHash_Parent(stored) == stored.ParentHash

\* line 89: the hash re-asserted as canonical is that of the stored block
InstalledCanonicalHash(stored) == Hash(stored)

\* variant: the error of a failed write is dropped
ErrorReturn_Swallowed(err) == [block |-> None, err |-> NoError]

\* lines 91, 98, 101, 104, 107: a failed write is returned as it is, no block
ErrorReturn(err) == [block |-> None, err |-> err]

\* the block the branch in progress works on: inside the if of line 87 the
\* name block is the stored block, after it the block built at line 75
CurBlock == IF found # None THEN found[1] ELSE block[1]

\* ------------------------------------------------------------------ actions
\* lines 37-63: read and decode the description, open a fresh state
Start(d) ==
  /\ pc = "idle"
  /\ genesis' = d
  /\ start' = chainDb
  /\ block' = None
  /\ found' = None
  /\ readFailed' = FALSE
  /\ steps' = <<>>
  /\ writes' = <<>>
  /\ failure' = NoFailure
  /\ statedb' = EmptyState
  /\ IF ParseError(d) # NoError
       THEN /\ pc' = "done"
            /\ todo' = {}
            /\ ret' = ErrorReturn(ParseError(d))
       ELSE /\ pc' = "alloc"
            /\ todo' = DOMAIN d.alloc
            /\ ret' = [block |-> None, err |-> NoError]
  /\ UNCHANGED <<chainDb, prev, node, procs>>

\* lines 64-71: the loop visits one more entry of the allocation map; the
\* order in which a map is visited is not fixed
AllocEntry ==
  /\ pc = "alloc"
  /\ \E k \in todo :
       /\ statedb' = ApplyEntry(statedb, k, genesis.alloc[k])
       /\ todo' = todo \ {k}
  /\ UNCHANGED <<chainDb, pc, genesis, block, found, readFailed, steps, writes,
                 failure, ret, start, prev, node, procs>>

\* lines 72-85: the block over the root of the state built
BuildBlock ==
  /\ pc = "alloc"
  /\ todo = {}
  /\ block' = Some(BuildHeader(genesis, StateRoot(statedb)))
  /\ pc' = "lookup"
  /\ UNCHANGED <<chainDb, genesis, statedb, todo, found, readFailed, steps,
                 writes, failure, ret, start, prev, node, procs>>

\* line 87: GetBlock(chainDb, block.Hash())
Lookup ==
  /\ pc = "lookup"
  /\ \E readOK \in BOOLEAN :
       /\ found' = GetBlock(chainDb, Hash(block[1]), readOK)
       /\ readFailed' = ~readOK
  /\ steps' = StepsFor(found')
  /\ pc' = "run"
  /\ UNCHANGED <<chainDb, genesis, statedb, todo, block, writes, failure, ret,
                 start, prev, node, procs>>

\* the step of the sequence has succeeded: go on, or return the block
Advance(newDb) ==
  /\ chainDb' = newDb
  /\ steps' = Tail(steps)
  /\ IF Tail(steps) = <<>>
       THEN pc' = "done" /\ ret' = [block |-> Some(CurBlock), err |-> NoError]
       ELSE pc' = "run" /\ ret' = ret
  /\ UNCHANGED failure

\* the write of the step has failed: return the error
Abort(op, err) ==
  /\ pc' = "done"
  /\ ret' = ErrorReturn(err)
  /\ failure' = [op |-> op, err |-> err]
  /\ UNCHANGED <<chainDb, steps, writes>>

AtStep(op) == pc = "run" /\ steps # <<>> /\ Head(steps) = op

\* line 95: statedb.Sync()
Sync ==
  /\ AtStep("sync")
  /\ Advance(StateSync(chainDb, block[1].Root))
  /\ UNCHANGED <<genesis, statedb, todo, block, found, readFailed, writes,
                 start, prev, node, procs>>

\* lines 97-99: WriteTd(chainDb, block.Hash(), difficulty)
WriteTdStep ==
  /\ AtStep("td")
  /\ \/ /\ Advance(WriteTd(chainDb, Hash(CurBlock), TdValue(chainDb, CurBlock)))
        /\ writes' = Append(writes, "td")
     \/ \E e \in StoreErrors : Abort("td", e)
  /\ UNCHANGED <<genesis, statedb, todo, block, found, readFailed, start,
                 prev, node, procs>>

\* lines 100-102: WriteBlock(chainDb, block)
WriteBlockStep ==
  /\ AtStep("block")
  /\ \/ /\ Advance(WriteBlock(chainDb, CurBlock))
        /\ writes' = Append(writes, "block")
     \/ \E e \in StoreErrors : Abort("block", e)
  /\ UNCHANGED <<genesis, statedb, todo, block, found, readFailed, start,
                 prev, node, procs>>

\* lines 89-92 and 103-105: WriteCanonicalHash(chainDb, block.Hash(), 0)
WriteCanonicalHashStep ==
  /\ AtStep("canon")
  /\ \/ /\ Advance(WriteCanonicalHash(chainDb,
                     IF found # None THEN InstalledCanonicalHash(found[1])
                                     ELSE Hash(block[1]),
                     CurBlock.Number))
        /\ writes' = Append(writes, "canon")
     \/ \E e \in StoreErrors : Abort("canon", e)
  /\ UNCHANGED <<genesis, statedb, todo, block, found, readFailed, start,
                 prev, node, procs>>

\* lines 106-108: WriteHeadBlockHash(chainDb, block.Hash())
WriteHeadBlockHashStep ==
  /\ AtStep("head")
  /\ \/ /\ Advance(WriteHeadBlockHash(chainDb, Hash(CurBlock)))
        /\ writes' = Append(writes, "head")
     \/ \E e \in StoreErrors : Abort("head", e)
  /\ UNCHANGED <<genesis, statedb, todo, block, found, readFailed, start,
                 prev, node, procs>>

\* the summary of the call that is ending
Summary(outcome) ==
  [desc |-> genesis, outcome |-> outcome, writes |-> writes,
   fromEmpty |-> (start = EmptyDb), block |-> block,
   allOk |-> (prev.allOk /\ outcome = "ok")]

\* the variables of a call, once the call is over
Forget ==
  /\ pc' = "idle"
  /\ genesis' = NoPrev.desc
  /\ statedb' = EmptyState
  /\ todo' = {}
  /\ block' = None
  /\ found' = None
  /\ readFailed' = FALSE
  /\ steps' = <<>>
  /\ writes' = <<>>
  /\ failure' = NoFailure
  /\ ret' = [block |-> None, err |-> NoError]
  /\ start' = chainDb
  /\ UNCHANGED <<chainDb, node, procs>>

\* lines 93 and 109, and every early return: the call returns to its caller
Return ==
  /\ pc = "done"
  /\ prev' = Summary(IF ret.err = NoError THEN "ok" ELSE "err")
  /\ Forget

\* the process stops between two steps of the call; the database is kept
Crash ==
  /\ pc \in {"lookup", "run"}
  /\ prev' = Summary("crash")
  /\ Forget

Next ==
  \/ \E d \in Descriptions : Start(d)
  \/ AllocEntry
  \/ BuildBlock
  \/ Lookup
  \/ Sync
  \/ WriteTdStep
  \/ WriteBlockStep
  \/ WriteCanonicalHashStep
  \/ WriteHeadBlockHashStep
  \/ Return
  \/ Crash

Spec == Init /\ [][Next]_vars

\* ------------------------------------------------- the builder's inputs
\* Descriptions with allocation tables: keys that spell an address plainly or
\* behind 0x (two of them the same address), and a key that is no hex text;
\* balances in decimal, in hex, and one that is no number; code and storage.
WideKeys ==
  {[form |-> "plain", addr |-> AddrA], [form |-> "0x", addr |-> AddrA],
   [form |-> "plain", addr |-> AddrB], [form |-> "bad", addr |-> "zz"]}

WideEntries ==
  {[balance |-> <<"1">>, code |-> <<>>, storage |-> Empty],
   [balance |-> <<"0", "x", "2">>, code |-> <<"6", "0">>,
    storage |-> [k \in {<<"0", "x", "1">>} |-> <<"0", "x", "5">>]],
   [balance |-> <<"x">>, code |-> <<>>, storage |-> Empty]}

WideAllocs == UNION {[K -> WideEntries] : K \in SUBSET WideKeys}

ParentHashTexts == {<<>>, <<"0", "x", "7">>}

WideDescriptions ==
  { Description(n, <<>>, DecText(1), ph, al) :
      n \in Nonces, ph \in ParentHashTexts, al \in WideAllocs }

\* a first call on the empty store, or the same description once more
StartBuild(d) ==
  /\ pc = "idle"
  /\ prev.outcome = "none" \/ (prev.desc = d /\ prev.fromEmpty)
  /\ Start(d)

BuildNext ==
  \/ \E d \in WideDescriptions : StartBuild(d)
  \/ AllocEntry
  \/ BuildBlock
  \/ Lookup
  \/ Sync
  \/ WriteTdStep
  \/ WriteBlockStep
  \/ WriteCanonicalHashStep
  \/ WriteHeadBlockHashStep
  \/ Return

BuildSpec == Init /\ [][BuildNext]_vars


\* ------------------------------------------------------------ the factories
\* the longest account list handed to WriteGenesisBlockForTesting
MaxAccounts == 2

\* params.GenesisGasLimit and params.GenesisDifficulty
GenesisGasLimit == 3141592
GenesisDifficulty == 131072

\* type GenesisAccount struct, lines 128-131
GenesisAccounts ==
  [Address : {AddrA, AddrB}, Balance : {0, 1, 100}]

AccountLists == UNION {[1..n -> GenesisAccounts] : n \in 0..MaxAccounts}

\* variant: the balance is written without the 0x prefix
AccountJson_NoPrefix(accounts) ==
  [k \in {[form |-> "0x", addr |-> accounts[i].Address] : i \in DOMAIN accounts} |->
     LET last == CHOOSE i \in DOMAIN accounts :
                   /\ accounts[i].Address = k.addr
                   /\ \A j \in DOMAIN accounts :
                        accounts[j].Address = k.addr => j <= i
     IN [balance |-> HexOfBytes(accounts[last].Balance),
         code |-> <<>>, storage |-> Empty]]

\* lines 134-141: the JSON object of the accounts, "0x%x" keys and "0x%x"
\* balances; of two members of the same key json.Unmarshal keeps the last
AccountJson(accounts) ==
  [k \in {[form |-> "0x", addr |-> accounts[i].Address] : i \in DOMAIN accounts} |->
     LET last == CHOOSE i \in DOMAIN accounts :
                   /\ accounts[i].Address = k.addr
                   /\ \A j \in DOMAIN accounts :
                        accounts[j].Address = k.addr => j <= i
     IN [balance |-> Hex0x(HexOfBytes(accounts[last].Balance)),
         code |-> <<>>, storage |-> Empty]]

\* lines 143-148: the description WriteGenesisBlockForTesting formats
TestGenesis(accounts) ==
  Description(Hex0x(NonceHex(0)), Hex0x(HexOfBytes(GenesisGasLimit)),
              Hex0x(HexOfBytes(GenesisDifficulty)), <<>>, AccountJson(accounts))

\* lines 159-162: the four addresses of balance 1
TestNetSmall ==
  {"0000000000000000000000000000000000000001",
   "0000000000000000000000000000000000000002",
   "0000000000000000000000000000000000000003",
   "0000000000000000000000000000000000000004"}

\* lines 163-170: the eight addresses of the large balance
TestNetLarge ==
  {"dbdbdb2cbd23b783741e8d7fcf51e459b497e4a6",
   "e4157b34ea9615cfbde6b4fda419828124b70c78",
   "b9c015918bdaba24b4ff057a92a3873d6eb201be",
   "6c386a4b26f73c802f34673f7248bb118f97424a",
   "cd2a3d9f938e13cd947ec05abc7fe734df8dd826",
   "2ef47100e0787b915105fd5e3f4ff6752079d5cb",
   "e6716f9544a56c530d868e4bfbacb172315bdead",
   "1a26338f0d905e295fccb71fa9ea849ffa12aaf4"}

\* the balance text of lines 163-170 is the decimal text of 2^200; the text
\* here is its first ten digits, a number the model's integers hold
LargeBalance == <<"1", "6", "0", "6", "9", "3", "8", "0", "4", "4">>

TestNetAlloc ==
  [k \in [form : {"plain"}, addr : TestNetSmall \cup TestNetLarge] |->
     [balance |-> IF k.addr \in TestNetSmall THEN <<"1">> ELSE LargeBalance,
      code |-> <<>>, storage |-> Empty]]

\* the nonces handed to WriteTestNetGenesisBlock
TestNetNonces == {7, 66}

\* variant: the nonce is written in decimal digits behind the 0x
TestNetGenesis_DecimalNonce(n) ==
  Description(Hex0x(DecText(n)), Hex0x(HexOfBytes(GenesisGasLimit)),
              Hex0x(HexOfBytes(GenesisDifficulty)), <<>>, TestNetAlloc)

\* lines 154-172: the description WriteTestNetGenesisBlock formats
TestNetGenesis(n) ==
  Description(Hex0x(NonceHex(n)), Hex0x(HexOfBytes(GenesisGasLimit)),
              Hex0x(HexOfBytes(GenesisDifficulty)), <<>>, TestNetAlloc)

\* a first call on the empty store; after its success the same description
\* once more, or any description after the one of the empty account list
FactoryTurn(d) ==
  \/ prev.outcome = "none"
  \/ /\ prev.fromEmpty /\ prev.outcome = "ok"
     /\ (prev.desc = d \/ prev.desc = TestGenesis(<<>>))

\* lines 133-151; the caller receives ret.block, the error is dropped
WriteGenesisBlockForTesting(accounts) ==
  /\ pc = "idle"
  /\ FactoryTurn(TestGenesis(accounts))
  /\ Start(TestGenesis(accounts))

\* lines 153-174
WriteTestNetGenesisBlock(n) ==
  /\ pc = "idle"
  /\ FactoryTurn(TestNetGenesis(n))
  /\ Start(TestNetGenesis(n))

FactoryNext ==
  \/ \E accounts \in AccountLists : WriteGenesisBlockForTesting(accounts)
  \/ \E n \in TestNetNonces : WriteTestNetGenesisBlock(n)
  \/ AllocEntry
  \/ BuildBlock
  \/ Lookup
  \/ Sync
  \/ WriteTdStep
  \/ WriteBlockStep
  \/ WriteCanonicalHashStep
  \/ WriteHeadBlockHashStep
  \/ Return

FactorySpec == Init /\ [][FactoryNext]_vars


\* ------------------------------------------- GenesisBlockForTesting
\* state.StateObject.SetBalance
SetBalance(st, a, amount) ==
  Put(st, a, [GetOrNewStateObject(st, a) EXCEPT !.balance = amount])

\* the arguments handed to GenesisBlockForTesting
TestingArgs == [form : {"testing"}, addr : {AddrA, AddrB}, balance : {1, 100}]

\* lines 115-117: a fresh state in which addr has the balance
TestingState(addr, balance) == SetBalance(EmptyState, addr, balance)

\* lines 120-124: the header names difficulty, gas limit and root only
TestingHeader(root) ==
  [ParentHash |-> ZeroHash, Nonce |-> 0, Time |-> 0, Extra |-> <<>>,
   GasLimit |-> GenesisGasLimit, Difficulty |-> GenesisDifficulty,
   MixDigest |-> ZeroHash, Coinbase |-> ZeroAddress, Root |-> root,
   Number |-> 0]

\* variant: the block is stored under its hash as well
TestingDb_WritesBlock(db, b) == WriteBlock(StateSync(db, b.Root), b)

\* lines 118-119: the database after SyncObjects and Sync
TestingDb(db, b) == StateSync(db, b.Root)

\* lines 114-125: the state is built and flushed, the block is built
GenesisBlockForTesting(a) ==
  /\ pc = "idle"
  /\ genesis' = a
  /\ start' = chainDb
  /\ statedb' = TestingState(a.addr, a.balance)
  /\ block' = Some(TestingHeader(StateRoot(statedb')))
  /\ chainDb' = TestingDb(chainDb, block'[1])
  /\ ret' = [block |-> block', err |-> NoError]
  /\ pc' = "tested"
  /\ UNCHANGED <<todo, found, readFailed, steps, writes, failure, prev, node, procs>>

\* line 125: the block is returned
ReturnForTesting ==
  /\ pc = "tested"
  /\ prev' = prev
  /\ Forget

TestingNext ==
  \/ \E accounts \in AccountLists : WriteGenesisBlockForTesting(accounts)
  \/ \E a \in TestingArgs : GenesisBlockForTesting(a)
  \/ ReturnForTesting
  \/ AllocEntry
  \/ BuildBlock
  \/ Lookup
  \/ Sync
  \/ WriteTdStep
  \/ WriteBlockStep
  \/ WriteCanonicalHashStep
  \/ WriteHeadBlockHashStep
  \/ Return

TestingSpec == Init /\ [][TestingNext]_vars

\* ------------------------------------------- two invocations at once
\* Two invocations of WriteGenesisBlock with one description share the
\* database; each database call is one step, the steps interleave.
ConcBegin(d) ==
  /\ pc = "idle"
  /\ genesis = NoPrev.desc
  /\ d.form = "ok"
  /\ genesis' = d
  /\ UNCHANGED <<chainDb, pc, statedb, todo, block, found, readFailed, steps,
                 writes, failure, ret, start, prev, node, procs>>

ConcOthers ==
  UNCHANGED <<pc, genesis, statedb, todo, block, found, readFailed, steps,
              writes, failure, ret, start, prev, node>>

\* lines 37-85: the invocation builds its block
ConcBuild(p) ==
  /\ genesis.form = "ok"
  /\ procs[p].pc = "idle"
  /\ procs' = [procs EXCEPT ![p].pc = "lookup",
                            ![p].block = Some(NewBlock(genesis))]
  /\ UNCHANGED chainDb
  /\ ConcOthers

\* line 87
ConcLookup(p) ==
  /\ procs[p].pc = "lookup"
  /\ \E readOK \in BOOLEAN :
       LET stored == GetBlock(chainDb, Hash(procs[p].block[1]), readOK)
       IN procs' = [procs EXCEPT ![p].pc = "run",
                                 ![p].found = stored,
                                 ![p].readFailed = ~readOK,
                                 ![p].steps = StepsFor(stored)]
  /\ UNCHANGED chainDb
  /\ ConcOthers

\* the block the branch of the invocation works on
CurOf(pr) == IF pr.found # None THEN pr.found[1] ELSE pr.block[1]

\* the database after the step at the head of the invocation's sequence
AfterStep(db, pr) ==
  CASE Head(pr.steps) = "sync" -> StateSync(db, pr.block[1].Root)
    [] Head(pr.steps) = "td" ->
         WriteTd(db, Hash(CurOf(pr)), TdValue(db, CurOf(pr)))
    [] Head(pr.steps) = "block" -> WriteBlock(db, CurOf(pr))
    [] Head(pr.steps) = "canon" ->
         WriteCanonicalHash(db,
           IF pr.found # None THEN InstalledCanonicalHash(pr.found[1])
                              ELSE Hash(pr.block[1]),
           CurOf(pr).Number)
    [] Head(pr.steps) = "head" -> WriteHeadBlockHash(db, Hash(CurOf(pr)))

\* lines 89-109: the next step of the invocation succeeds
ConcStep(p) ==
  /\ procs[p].pc = "run"
  /\ procs[p].steps # <<>>
  /\ chainDb' = AfterStep(chainDb, procs[p])
  /\ procs' =
       IF Tail(procs[p].steps) = <<>>
         THEN [procs EXCEPT ![p].pc = "done", ![p].steps = <<>>,
                            ![p].ret = [block |-> Some(CurOf(procs[p])),
                                        err |-> NoError]]
         ELSE [procs EXCEPT ![p].steps = Tail(@)]
  /\ ConcOthers

\* the next write of the invocation fails
ConcFail(p) ==
  /\ procs[p].pc = "run"
  /\ procs[p].steps # <<>>
  /\ Head(procs[p].steps) # "sync"
  /\ \E e \in StoreErrors :
       procs' = [procs EXCEPT ![p].pc = "done",
                              ![p].ret = ErrorReturn(e),
                              ![p].failure = [op |-> Head(procs[p].steps),
                                              err |-> e]]
  /\ UNCHANGED chainDb
  /\ ConcOthers

ConcNext ==
  \/ \E d \in Descriptions : ConcBegin(d)
  \/ \E p \in Procs : ConcBuild(p)
  \/ \E p \in Procs : ConcLookup(p)
  \/ \E p \in Procs : ConcStep(p)
  \/ \E p \in Procs : ConcFail(p)

ConcSpec == Init /\ [][ConcNext]_vars

\* ------------------------------------------------------ the RPC facade
\* pending transactions: sender, account nonce, gas price
Txs == [from : {AddrA, AddrB}, nonce : {"n0", "n1"}, price : {"low", "high"}]

Rates == {"slow", "fast"}

NoTx == [from |-> "none", nonce |-> "none", price |-> "none"]

NoArgs == [tx |-> NoTx, gasPrice |-> "none", rate |-> "none"]

\* variant: eth_mining is bound to the handler of exp_getWork
ethMapping_MiningAsGetWork ==
  ("eth_accounts" :> "Accounts") @@ ("eth_blockNumber" :> "BlockNumber")
  @@ ("eth_getBalance" :> "GetBalance")
  @@ ("eth_protocolVersion" :> "ProtocolVersion")
  @@ ("eth_coinbase" :> "Coinbase") @@ ("eth_mining" :> "GetWork")
  @@ ("eth_syncing" :> "IsSyncing") @@ ("eth_gasPrice" :> "GasPrice")
  @@ ("exp_getFilterChanges" :> "GetFilterChanges")
  @@ ("exp_getFilterLogs" :> "GetFilterLogs") @@ ("exp_getLogs" :> "GetLogs")
  @@ ("exp_hashrate" :> "Hashrate") @@ ("exp_getWork" :> "GetWork")
  @@ ("exp_submitWork" :> "SubmitWork")
  @@ ("exp_submitHashrate" :> "SubmitHashrate") @@ ("exp_resend" :> "Resend")
  @@ ("exp_pendingTransactions" :> "PendingTransactions")
  @@ ("exp_getTransactionReceipt" :> "GetTransactionReceipt")

\* part_000 lines 51-70: method name to handler
ethMapping ==
  ("eth_accounts" :> "Accounts") @@ ("eth_blockNumber" :> "BlockNumber")
  @@ ("eth_getBalance" :> "GetBalance")
  @@ ("eth_protocolVersion" :> "ProtocolVersion")
  @@ ("eth_coinbase" :> "Coinbase") @@ ("eth_mining" :> "IsMining")
  @@ ("eth_syncing" :> "IsSyncing") @@ ("eth_gasPrice" :> "GasPrice")
  @@ ("exp_getFilterChanges" :> "GetFilterChanges")
  @@ ("exp_getFilterLogs" :> "GetFilterLogs") @@ ("exp_getLogs" :> "GetLogs")
  @@ ("exp_hashrate" :> "Hashrate") @@ ("exp_getWork" :> "GetWork")
  @@ ("exp_submitWork" :> "SubmitWork")
  @@ ("exp_submitHashrate" :> "SubmitHashrate") @@ ("exp_resend" :> "Resend")
  @@ ("exp_pendingTransactions" :> "PendingTransactions")
  @@ ("exp_getTransactionReceipt" :> "GetTransactionReceipt")

\* the requests: a method name, parameters that decode or do not, and the
\* arguments the handler of the method decodes
Requests ==
  {[Method |-> m, decodes |-> TRUE, args |-> NoArgs] :
     m \in (DOMAIN ethMapping) \cup {"exp_unknown"}}
  \cup {[Method |-> m, decodes |-> FALSE, args |-> NoArgs] :
          m \in {"exp_submitHashrate", "exp_resend"}}
  \cup {[Method |-> "exp_submitHashrate", decodes |-> TRUE,
         args |-> [NoArgs EXCEPT !.rate = r]] : r \in Rates}
  \cup {[Method |-> "exp_resend", decodes |-> TRUE,
         args |-> [NoArgs EXCEPT !.tx = t, !.gasPrice = g]] :
          t \in Txs, g \in {"low", "high"}}

\* lines 633-641: xeth.SetMining(true, 0) starts the miner, or fails to,
\* before the work is fetched
GetWork(nd) == {[nd EXCEPT !.mining = TRUE], nd}

\* lines 651-658
SubmitHashrate(nd, req) ==
  IF req.decodes /\ req.args.rate # "none"
    THEN {[nd EXCEPT !.hashrate = req.args.rate]}
    ELSE {nd}

\* lines 660-677: a pending transaction of the same sender and signing hash
\* is removed and sent again at the price of the request; xeth.Transact adds
\* the new transaction to the pool, or fails
Resend(nd, req) ==
  IF req.decodes /\ req.args.tx \in nd.txPool
    THEN {[nd EXCEPT !.txPool = @ \ {req.args.tx}],
          [nd EXCEPT !.txPool = (@ \ {req.args.tx})
                        \cup {[req.args.tx EXCEPT !.price = req.args.gasPrice]}]}
    ELSE {nd}

\* the node after the handler has run; the handlers not named here call
\* getters of xeth only
Call(handler, nd, req) ==
  CASE handler = "GetWork" -> GetWork(nd)
    [] handler = "SubmitHashrate" -> SubmitHashrate(nd, req)
    [] handler = "Resend" -> Resend(nd, req)
    [] OTHER -> {nd}

\* lines 170-176: the handler of the method is called; a method that has
\* none is answered by the not-implemented error
Execute(req) ==
  /\ pc = "idle"
  /\ IF req.Method \in DOMAIN ethMapping
       THEN node' \in Call(ethMapping[req.Method], node, req)
       ELSE node' = node
  /\ UNCHANGED <<chainDb, pc, genesis, statedb, todo, block, found, readFailed,
                 steps, writes, failure, ret, start, prev, procs>>

\* a transaction reaches the pool from a peer
TxPoolAdd(tx) ==
  /\ pc = "idle"
  /\ tx \notin node.txPool
  /\ node' = [node EXCEPT !.txPool = @ \cup {tx}]
  /\ UNCHANGED <<chainDb, pc, genesis, statedb, todo, block, found, readFailed,
                 steps, writes, failure, ret, start, prev, procs>>

FacadeNext ==
  \/ \E req \in Requests : Execute(req)
  \/ \E tx \in Txs : TxPoolAdd(tx)

FacadeSpec == Init /\ [][FacadeNext]_vars


\* ================================================================== claims
\* the four Chain Index records of a database
ChainIndex(db) == [blocks |-> db.blocks, td |-> db.td, canon |-> db.canon,
                   head |-> db.head]

\* the Chain Index after one uninterrupted install of d into an empty store
CleanInstall(d) ==
  [blocks |-> Put(Empty, Hash(NewBlock(d)), NewBlock(d)),
   td |-> Put(Empty, Hash(NewBlock(d)), NewBlock(d).Difficulty),
   canon |-> Put(Empty, 0, Hash(NewBlock(d))),
   head |-> Some(Hash(NewBlock(d)))]

\* the effect the Chain Index writes named in ws have for block b
ApplyOne(ix, b, w) ==
  CASE w = "td" -> [ix EXCEPT !.td = Put(@, Hash(b), b.Difficulty)]
    [] w = "block" -> [ix EXCEPT !.blocks = Put(@, Hash(b), b)]
    [] w = "canon" -> [ix EXCEPT !.canon = Put(@, 0, Hash(b))]
    [] w = "head" -> [ix EXCEPT !.head = Some(Hash(b))]

RECURSIVE ApplyWrites(_, _, _)
ApplyWrites(ix, b, ws) ==
  IF ws = <<>> THEN ix ELSE ApplyWrites(ApplyOne(ix, b, Head(ws)), b, Tail(ws))

IsPrefix(s, t) == Len(s) <= Len(t) /\ SubSeq(t, 1, Len(s)) = s

FourWrites == <<"td", "block", "canon", "head">>

InCall == pc \in {"run", "done"}

Succeeded == pc = "done" /\ ret.err = NoError /\ ret.block # None

\* ---------------------------------------------------------------------- C1
\* C1: a bootstrap call that follows a successful call with the same genesis
\* description, with no read or write failure, leaves block record, total
\* difficulty, number-0 canonical entry and head pointer as the first call
\* left them, at every point of the second call and at its end.
C1_IdempotentInstall ==
  (InCall /\ prev.outcome = "ok" /\ prev.desc = genesis /\ ~readFailed)
    => ChainIndex(chainDb) = ChainIndex(start)

\* the second call has run to its end through the already-installed branch
C1_Witness ==
  /\ Succeeded
  /\ prev.outcome = "ok" /\ prev.desc = genesis /\ ~readFailed
  /\ writes = <<"canon">>
  /\ chainDb.head = Some(Hash(block[1]))

\* ---------------------------------------------------------------------- C2
\* C2: a run on an empty store that crashed after one, two or three of its
\* four writes, followed by a run with the same description that completes
\* without failure, ends with the Chain Index of one uninterrupted install.
C2_CrashConvergence ==
  (/\ Succeeded /\ ~readFailed
   /\ prev.outcome = "crash" /\ prev.fromEmpty /\ prev.desc = genesis
   /\ Len(prev.writes) \in 1..3)
    => ChainIndex(chainDb) = CleanInstall(genesis)

\* ---------------------------------------------------------------------- C3
\* C3: from a store in which only the total-difficulty and block writes of a
\* genesis succeeded, the next call with that genesis writes the canonical
\* hash and the head pointer, nothing else, and ends as a clean install.
C3_PartialFailureConvergence ==
  (/\ Succeeded /\ ~readFailed
   /\ prev.outcome \in {"crash", "err"} /\ prev.fromEmpty
   /\ prev.desc = genesis /\ prev.writes = <<"td", "block">>)
    => /\ writes = <<"canon", "head">>
       /\ ChainIndex(chainDb) = CleanInstall(genesis)

\* ---------------------------------------------------------------------- C4
\* C4: in every reachable state, crash points and failed writes included, a
\* hash named by the number-0 canonical entry or by the head pointer has a
\* block record and a total-difficulty record.
Referenced(db) ==
  {db.canon[n] : n \in DOMAIN db.canon} \cup {db.head[i] : i \in DOMAIN db.head}

C4_PointersReferencePresentRecords ==
  \A h \in Referenced(chainDb) :
    h \in DOMAIN chainDb.blocks /\ h \in DOMAIN chainDb.td

\* a fresh install stands between its canonical-hash and its head write
C4_Witness ==
  /\ AtStep("head") /\ found = None
  /\ 0 \in DOMAIN chainDb.canon /\ chainDb.canon[0] = Hash(block[1])
  /\ chainDb.head = None

\* ---------------------------------------------------------------------- C5
\* C5: in every reachable state the head pointer, when set, resolves through
\* the block-by-hash index to a block of that hash.
C5_NoDanglingHead ==
  chainDb.head # None =>
    /\ GetBlock(chainDb, chainDb.head[1], TRUE) # None
    /\ Hash(GetBlock(chainDb, chainDb.head[1], TRUE)[1]) = chainDb.head[1]

\* a call for another genesis has just overwritten the head of an earlier one
C5_Witness ==
  /\ Succeeded /\ found = None
  /\ start.head # None /\ start.head # chainDb.head
  /\ chainDb.head = Some(Hash(block[1]))

\* ---------------------------------------------------------------------- C6
\* C6: when the block is not found by hash, the Chain Index writes performed
\* so far are always a prefix of total difficulty, block, canonical hash,
\* head, each with the genesis hash and value, and a call that returns the
\* block has performed exactly these four.
C6_FreshInstallWriteOrder ==
  (InCall /\ found = None)
    => /\ IsPrefix(writes, FourWrites)
       /\ ChainIndex(chainDb) = ApplyWrites(ChainIndex(start), block[1], writes)
       /\ (Succeeded => writes = FourWrites)

\* a fresh install has returned after its four writes
C6_Witness ==
  /\ Succeeded /\ found = None /\ ~readFailed
  /\ writes = FourWrites
  /\ ChainIndex(chainDb) = CleanInstall(genesis)

\* ---------------------------------------------------------------------- C7
\* C7: when the lookup finds the genesis block, the call writes nothing but
\* the number-0 canonical entry, which it sets to the genesis hash; block
\* record, total difficulty and head stay as they were, and unless that
\* write fails the stored block is returned with no error.
C7_AlreadyInstalledPath ==
  (InCall /\ found # None)
    => /\ IsPrefix(writes, <<"canon">>)
       /\ chainDb.blocks = start.blocks
       /\ chainDb.td = start.td
       /\ chainDb.head = start.head
       /\ chainDb.canon = IF writes = <<>> THEN start.canon
                          ELSE Put(start.canon, 0, Hash(block[1]))
       /\ (pc = "done" /\ failure = NoFailure
             => /\ writes = <<"canon">>
                /\ ret = [block |-> Some(start.blocks[Hash(block[1])]),
                          err |-> NoError])

\* the store held the block but no number-0 canonical entry, now restored
C7_Witness ==
  /\ Succeeded /\ found # None
  /\ 0 \notin DOMAIN start.canon
  /\ chainDb.canon[0] = Hash(block[1])

\* ---------------------------------------------------------------------- C8
\* C8: a call in which a Chain Index write failed returns that write's error
\* and no block, has performed exactly the writes that precede the failed
\* one in its sequence, and leaves their effect in the database.
C8_WriteFailure ==
  (pc = "done" /\ failure # NoFailure)
    => /\ ret = [block |-> None, err |-> failure.err]
       /\ failure.err \in StoreErrors
       /\ IsPrefix(Append(writes, failure.op),
                   IF found # None THEN <<"canon">> ELSE FourWrites)
       /\ ChainIndex(chainDb) = ApplyWrites(ChainIndex(start), block[1], writes)

\* the canonical-hash write of a fresh install has failed
C8_Witness ==
  /\ pc = "done" /\ failure.op = "canon" /\ found = None
  /\ writes = <<"td", "block">>
  /\ Hash(block[1]) \in DOMAIN chainDb.blocks
  /\ ret.err \in StoreErrors

\* ---------------------------------------------------------------------- C9
\* C9: a call whose by-hash lookup failed performs no Chain Index write and
\* returns an error.
C9_ReadFailureAborts ==
  readFailed
    => /\ writes = <<>>
       /\ ChainIndex(chainDb) = ChainIndex(start)
       /\ (pc = "done" => ret.err # NoError)

\* --------------------------------------------------------------------- C10
\* C10 as claimed: once a call has installed a genesis successfully, no step
\* of a later call changes that genesis's block record, its total-difficulty
\* record or the number-0 canonical entry.
PrevHash == Hash(NewBlock(prev.desc))

C10_OnlyHeadOverwritten ==
  [][prev.outcome = "ok"
       => /\ PrevHash \in DOMAIN chainDb'.blocks
          /\ chainDb'.blocks[PrevHash] = chainDb.blocks[PrevHash]
          /\ chainDb'.td[PrevHash] = chainDb.td[PrevHash]
          /\ chainDb'.canon = chainDb.canon]_vars

\* C10 as amended: no step changes the value of a block record or of a
\* total-difficulty record that is present; a step that changes the number-0
\* canonical entry or the head pointer sets it to the hash of the genesis
\* block of the call in progress.
C10_RecordsImmutable ==
  [][/\ \A h \in DOMAIN chainDb.blocks :
          h \in DOMAIN chainDb'.blocks /\ chainDb'.blocks[h] = chainDb.blocks[h]
     /\ \A h \in DOMAIN chainDb.td :
          h \in DOMAIN chainDb'.td /\ chainDb'.td[h] = chainDb.td[h]
     /\ (chainDb'.canon # chainDb.canon
           => chainDb'.canon = Put(chainDb.canon, 0, Hash(block[1])))
     /\ (chainDb'.head # chainDb.head
           => chainDb'.head = Some(Hash(block[1])))]_vars

\* after a successful install, a call for another genesis has overwritten the
\* canonical entry and the head, and the first genesis's records are intact
C10_Witness ==
  /\ Succeeded /\ prev.outcome = "ok" /\ prev.desc # genesis
  /\ start.canon[0] = PrevHash /\ chainDb.canon[0] = Hash(block[1])
  /\ chainDb.head = Some(Hash(block[1]))
  /\ chainDb.blocks[PrevHash] = NewBlock(prev.desc)
  /\ chainDb.td[PrevHash] = String2Big(prev.desc.difficulty)

\* --------------------------------------------------------------------- C11
\* C11: when a description is built a second time, the block has the state
\* root and the hash of the block built the first time, also when two keys of
\* the allocation table spell the same address.
C11_Determinism ==
  (block # None /\ prev.block # None /\ prev.desc = genesis)
    => /\ block[1].Root = prev.block[1].Root
       /\ Hash(block[1]) = Hash(prev.block[1])

\* --------------------------------------------------------------------- C12
\* C12: whatever the order in which the loop visited the entries of the
\* allocation table, the accounts built and their root are those of the
\* entries applied in the fixed order.
C12_OrderIndependence ==
  block # None
    => /\ statedb = Materialize(EmptyState, genesis.alloc)
       /\ block[1].Root = Root(genesis)

\* --------------------------------------------------------------------- C13
\* C13 as claimed: a block returned by a successful call is the canonical
\* block of number 0 and its parent hash is the zero hash, whatever parent
\* hash the description carries.
C13_ParentHashZero ==
  Succeeded
    => /\ 0 \in DOMAIN chainDb.canon
       /\ chainDb.canon[0] = Hash(ret.block[1])
       /\ ret.block[1].ParentHash = ZeroHash

\* C13 as amended: a block returned by a successful call has number 0, is
\* the canonical block of number 0, and its parent hash is the hash the
\* description's parentHash text denotes: the zero hash when the text is
\* absent or denotes zero.
C13_ParentHashVerbatim ==
  Succeeded
    => /\ 0 \in DOMAIN chainDb.canon
       /\ chainDb.canon[0] = Hash(ret.block[1])
       /\ ret.block[1].Number = 0
       /\ ret.block[1].ParentHash = HexToHash(genesis.parentHash)
       /\ (genesis.parentHash = <<>> => ret.block[1].ParentHash = ZeroHash)

\* a genesis whose description carries a non-zero parent hash is installed
C13_Witness ==
  /\ Succeeded
  /\ ret.block[1].ParentHash = <<"x", 7>>
  /\ chainDb.canon[0] = Hash(ret.block[1])
  /\ Hash(ret.block[1]) \in DOMAIN chainDb.blocks

\* --------------------------------------------------------------------- C14
\* C14: after a successful call on an empty store the returned block is
\* found under its hash, the total difficulty under that hash is the
\* difficulty of the description, and the number-0 canonical hash and the
\* head pointer are that hash.
C14_FreshInstallPostcondition ==
  (Succeeded /\ start = EmptyDb)
    => /\ GetBlock(chainDb, Hash(ret.block[1]), TRUE) = ret.block
       /\ Hash(ret.block[1]) \in DOMAIN chainDb.td
       /\ chainDb.td[Hash(ret.block[1])] = String2Big(genesis.difficulty)
       /\ 0 \in DOMAIN chainDb.canon
       /\ chainDb.canon[0] = Hash(ret.block[1])
       /\ chainDb.head = Some(Hash(ret.block[1]))

\* a description of difficulty 2 has been installed into the empty store
C14_Witness ==
  /\ Succeeded /\ start = EmptyDb
  /\ writes = FourWrites
  /\ chainDb.td[Hash(ret.block[1])] = 2
  /\ chainDb.head = Some(Hash(block[1]))

\* --------------------------------------------------------------------- C15
\* C15: a call whose description cannot be read or is no valid JSON returns
\* an error and no block, and the database, Chain Index and world state, is
\* as it was before the call.
C15_MalformedDescription ==
  (pc = "done" /\ genesis.form # "ok")
    => /\ ret.block = None
       /\ ret.err # NoError
       /\ writes = <<>>
       /\ chainDb = start

\* a malformed description has been handed to a store that holds a genesis
C15_Witness ==
  /\ pc = "done" /\ genesis.form = "badjson"
  /\ ret = [block |-> None, err |-> "unmarshal error"]
  /\ chainDb.head # None /\ chainDb.state # {}

\* --------------------------------------------------------------------- C16
\* C16: a description with an allocation key that is no address text, or a
\* balance that is no number, makes the call fail: no block is built, and
\* the call returns an error.
Unparsable(d) ==
  \E k \in DOMAIN d.alloc : k.form = "bad" \/ SetString(d.alloc[k].balance) < 0

C16_UnparsableAllocation ==
  (pc # "idle" /\ Unparsable(genesis))
    => /\ block = None
       /\ (pc = "done" => ret.block = None /\ ret.err # NoError)

\* --------------------------------------------------------------------- C17
\* C17: once the allocation table is applied, the address of every entry
\* holds that entry's balance, code and storage slots, there is no other
\* account, and the empty table gives the root of the empty state.
EntryStorage(e) ==
  [s \in {HexToHash(k) : k \in DOMAIN e.storage} |->
     HexToHash(e.storage[CHOOSE k \in DOMAIN e.storage : HexToHash(k) = s])]

C17_MaterializationResult ==
  block # None
    => /\ \A k \in DOMAIN genesis.alloc :
            /\ HexToAddress(k) \in DOMAIN statedb
            /\ statedb[HexToAddress(k)] =
                 [balance |-> String2Big(genesis.alloc[k].balance),
                  code |-> Hex2Bytes(genesis.alloc[k].code),
                  storage |-> EntryStorage(genesis.alloc[k])]
       /\ DOMAIN statedb = {HexToAddress(k) : k \in DOMAIN genesis.alloc}
       /\ (DOMAIN genesis.alloc = {} => block[1].Root = EmptyRoot)

\* --------------------------------------------------------------------- C18
\* the genesis of the account list has been built and installed: header of
\* zero nonce, zero time, no extra data, default difficulty and gas limit,
\* over the state built, and canonical at number 0
TestingInstalled ==
  /\ block[1].Nonce = 0 /\ block[1].Time = 0 /\ block[1].Extra = <<>>
  /\ block[1].Difficulty = GenesisDifficulty
  /\ block[1].GasLimit = GenesisGasLimit
  /\ block[1].Root = StateRoot(statedb)
  /\ ret.block = block
  /\ Hash(block[1]) \in DOMAIN chainDb.blocks
  /\ chainDb.canon[0] = Hash(block[1])

\* C18 as claimed: after a successful WriteGenesisBlockForTesting every
\* address of the list holds the balance listed with it, no code and no
\* storage; header fields as in TestingInstalled; the list of one account
\* of balance 100 gives another root and hash than the empty list before it.
C18_ListedBalances ==
  \A accounts \in AccountLists :
    (Succeeded /\ genesis = TestGenesis(accounts))
      => /\ \A i \in DOMAIN accounts :
              /\ accounts[i].Address \in DOMAIN statedb
              /\ statedb[accounts[i].Address] =
                   [balance |-> accounts[i].Balance, code |-> <<>>,
                    storage |-> Empty]
         /\ TestingInstalled

\* C18 as amended: after a successful WriteGenesisBlockForTesting every
\* address of the list holds the balance of its last entry in the list (its
\* listed balance when no address is listed twice), no code and no storage,
\* and there is no other account; header fields as in TestingInstalled; the
\* list of one account of balance 100 gives another root and hash than the
\* empty list installed before it.
C18_LastListedBalances ==
  \A accounts \in AccountLists :
    (Succeeded /\ genesis = TestGenesis(accounts))
      => /\ DOMAIN statedb = {accounts[i].Address : i \in DOMAIN accounts}
         /\ \A i \in DOMAIN accounts :
              (\A j \in DOMAIN accounts :
                 accounts[j].Address = accounts[i].Address => j <= i)
                => statedb[accounts[i].Address] =
                     [balance |-> accounts[i].Balance, code |-> <<>>,
                      storage |-> Empty]
         /\ TestingInstalled
         /\ (/\ prev.desc = TestGenesis(<<>>) /\ prev.block # None
             /\ \E i \in DOMAIN accounts : accounts[i].Balance = 100
             /\ Len(accounts) = 1)
              => /\ block[1].Root # prev.block[1].Root
                 /\ prev.block[1].Root = EmptyRoot
                 /\ Hash(block[1]) # Hash(prev.block[1])

\* the genesis of one account of balance 100 is installed into the store
\* that holds the genesis of the empty list
C18_Witness ==
  /\ Succeeded
  /\ genesis = TestGenesis(<<[Address |-> AddrA, Balance |-> 100]>>)
  /\ statedb[AddrA].balance = 100
  /\ prev.desc = TestGenesis(<<>>) /\ prev.outcome = "ok"
  /\ Cardinality(DOMAIN chainDb.blocks) = 2

\* --------------------------------------------------------------------- C19
\* C19: the genesis WriteTestNetGenesisBlock(n) builds has twelve accounts,
\* four of balance 1 and eight of the large balance, header nonce n and the
\* default difficulty and gas limit; built again with the same nonce it has
\* the same hash, and the call that follows a successful one on the same
\* store, with no read failure, finds the block and writes canonical 0 only.
C19_TestNetGenesis ==
  \A n \in TestNetNonces :
    (block # None /\ genesis = TestNetGenesis(n))
      => /\ Cardinality(DOMAIN genesis.alloc) = 12
         /\ Cardinality(DOMAIN statedb) = 12
         /\ Cardinality({a \in DOMAIN statedb : statedb[a].balance = 1}) = 4
         /\ Cardinality({a \in DOMAIN statedb :
                           statedb[a].balance = String2Big(LargeBalance)}) = 8
         /\ \A a \in DOMAIN statedb :
              statedb[a].code = <<>> /\ statedb[a].storage = Empty
         /\ block[1].Nonce = n
         /\ block[1].Difficulty = GenesisDifficulty
         /\ block[1].GasLimit = GenesisGasLimit
         /\ block[1].Root = StateRoot(statedb)
         /\ (prev.desc = genesis /\ prev.block # None
               => Hash(block[1]) = Hash(prev.block[1]))
         /\ (prev.desc = genesis /\ prev.outcome = "ok" /\ ~readFailed
             /\ pc \in {"run", "done"})
              => /\ found # None
                 /\ IsPrefix(writes, <<"canon">>)

\* the second call with nonce 66 has ended on the already-installed path
C19_Witness ==
  /\ Succeeded
  /\ genesis = TestNetGenesis(66)
  /\ block[1].Nonce = 66
  /\ prev.desc = genesis /\ prev.outcome = "ok"
  /\ found # None /\ writes = <<"canon">>

WritingMethods ==
  {"exp_getWork", "exp_submitWork", "exp_submitHashrate", "exp_resend"}

C21_TestingBlockFrame ==
  pc = "tested"
    => /\ DOMAIN statedb = {genesis.addr}
       /\ statedb[genesis.addr] =
            [balance |-> genesis.balance, code |-> <<>>, storage |-> Empty]
       /\ ret.err = NoError
       /\ ret.block[1].Root = StateRoot(statedb)
       /\ ret.block[1].Difficulty = GenesisDifficulty
       /\ ret.block[1].GasLimit = GenesisGasLimit
       /\ ret.block[1].Root \in chainDb.state
       /\ ChainIndex(chainDb) = ChainIndex(start)

\* a block of balance 100 is built over a store that holds a genesis, and
\* its state is new to the database
C21_Witness ==
  /\ pc = "tested"
  /\ genesis.balance = 100
  /\ chainDb.head # None
  /\ ret.block[1].Root \notin start.state
  /\ ret.block[1].Root \in chainDb.state

\* --------------------------------------------------------------------- C22
\* C22: when a bootstrap call has returned a block, and until the next call
\* begins, the number-0 canonical hash is the hash of that block, whatever
\* calls, with whatever descriptions, the store has seen before.
C22_CanonicalIsLatest ==
  /\ Succeeded
       => /\ 0 \in DOMAIN chainDb.canon
          /\ chainDb.canon[0] = Hash(ret.block[1])
  /\ (pc = "idle" /\ prev.outcome = "ok")
       => /\ 0 \in DOMAIN chainDb.canon
          /\ chainDb.canon[0] = Hash(prev.block[1])

\* after successful calls only, a call has found its block installed under
\* a canonical entry that named another genesis, and has re-pointed it
C22_Witness ==
  /\ Succeeded
  /\ prev.allOk
  /\ found # None
  /\ 0 \in DOMAIN start.canon
  /\ start.canon[0] # Hash(ret.block[1])
  /\ chainDb.canon[0] = Hash(ret.block[1])

\* --------------------------------------------------------------------- C23
\* C23: after bootstrap calls that all succeeded, the head pointer names the
\* block the number-0 canonical hash names.
C23_HeadIsCanonical ==
  (pc = "idle" /\ prev.outcome = "ok" /\ prev.allOk)
    => /\ 0 \in DOMAIN chainDb.canon
       /\ chainDb.head = Some(chainDb.canon[0])

\* --------------------------------------------------------------------- C24
\* C24: when two invocations with one description, begun on the empty
\* store, have both ended and no write of either has failed, each has
\* returned a block of the genesis hash with no error, and block record,
\* total difficulty, canonical 0 and head are those of one clean install.
BothEnded ==
  \A p \in Procs : procs[p].pc = "done" /\ procs[p].failure = NoFailure

C24_ConcurrentInstall ==
  BothEnded
    => /\ \A p \in Procs :
            /\ procs[p].ret.err = NoError
            /\ procs[p].ret.block # None
            /\ Hash(procs[p].ret.block[1]) = Hash(NewBlock(genesis))
       /\ ChainIndex(chainDb) = CleanInstall(genesis)

\* one invocation installed the genesis, the other found it installed
C24_Witness ==
  /\ BothEnded
  /\ procs["p1"].found = None /\ ~procs["p1"].readFailed
  /\ procs["p2"].found # None
  /\ ChainIndex(chainDb) = CleanInstall(genesis)

\* --------------------------------------------------------------------- C25
\* C25: in every state reached from the empty store, crash points among
\* them, the state root of every block record present has been flushed to
\* the database; a fresh install has flushed the root of its block before
\* its first Chain Index write; a call that found its block installed
\* leaves the flushed state as it was.
C25_StateFlushedFirst ==
  /\ \A h \in DOMAIN chainDb.blocks : chainDb.blocks[h].Root \in chainDb.state
  /\ (InCall /\ found = None /\ writes # <<>>)
       => block[1].Root \in chainDb.state
  /\ (InCall /\ found # None) => chainDb.state = start.state

\* a fresh install of a genesis with an account crashed after its block
\* write: the block record is present and its state is flushed
C25_Witness ==
  /\ pc = "idle"
  /\ prev.outcome = "crash"
  /\ prev.writes = <<"td", "block">>
  /\ prev.block[1].Root # EmptyRoot
  /\ Hash(prev.block[1]) \in DOMAIN chainDb.blocks
  /\ prev.block[1].Root \in chainDb.state
  /\ chainDb.head = None

====
